---- MODULE Spec2Model ----
(***************************************************************************)
(* A model of the SCF engine of src/src/sadatom/solver.cpp: the            *)
(* OrbitalChannel occupation logic, the ordering of configurations, the    *)
(* Fock assembly (FockBuild) and the convergence loop (SCFSolver::Solve).  *)
(*                                                                         *)
(* Energies, accelerator errors and thresholds are integers (a fixed-point *)
(* scale); the integrals, the XC evaluator and the accelerator's           *)
(* extrapolation are external to solver.cpp and enter as inputs drawn from *)
(* small sets.  Sequences are 1-based: angular channel l is index l+1.     *)
(***************************************************************************)
EXTENDS Integers, Sequences, FiniteSets, TLC

VARIABLES
    solver,     \* the SCFSolver object's fields read or written by Solve/FockBuild
    conf,       \* the configuration (rconf_t or uconf_t) handed to Solve
    pc,         \* where the caller / the Solve call stands
    E,          \* Solve's local E
    dE,         \* the energy change computed in the latest iteration
    iscf,       \* Solve's loop counter
    diiserr,    \* Solve's local diiserr
    diis,       \* the history held by the accelerator object
    ncall,      \* Solve calls made so far on this solver
    nfock,      \* FockBuild calls made by the current / latest Solve call
    testlog,    \* outcome of the convergence test in each iteration of the call
    pre,        \* the configuration's flag and energy as the call found them
    fin,        \* what the latest FockBuild obtained from the integrals
    report,     \* the call printed "*** Not converged"
    ret,        \* the value the call returned
    refresh,    \* the orbital refresh the latest iteration applied, per channel
    fterms,     \* the terms the latest FockBuild summed into the Fock tensor
    prog,       \* the call's refreshes so far and what the latest iteration ran
    before,     \* the configuration and the solver as the call found them
    ch,         \* an OrbitalChannel: restr, lmax, E (energies per l and node), occs
    op,         \* the latest operation applied to ch and its argument
    moves,      \* the list the latest MoveElectrons call returned
    out,        \* what the latest const member call on ch returned or wrote
    cmp,        \* two configurations and the outcome of comparing them
    psolver,    \* a solver object shared by two threads
    thr,        \* per thread: where its Solve call stands
    acc,        \* the accesses made so far to fields of the shared solver
    pk,         \* a cube, its supermatrix and the cube unpacked from it
    hip,        \* a GeneralHIPBasis: nder, nnodes, enabled, the drops applied
    fv          \* the latest evaluation of the primitive functions

scfvars == <<solver, conf, pc, E, dE, iscf, diiserr, diis, ncall, nfock,
             testlog, pre, fin, report, ret, refresh, fterms, prog, before>>

chanvars == <<ch, op, moves, out>>

ordvars == <<cmp>>

parvars == <<psolver, thr, acc>>

packvars == <<pk>>

hipvars == <<hip, fv>>

vars == <<scfvars, chanvars, ordvars, parvars, packvars, hipvars>>

----------------------------------------------------------------------------
(* Bounds of the model *)

Lmax == 1          \* the solver's lmax
MaxIt == 2         \* largest maxit a solver is built with
MaxCalls == 2      \* Solve calls explored per solver
ConvThr == 2       \* convthr, in energy units of the model
DiisThr == 3       \* diisthr (> convthr), in error units of the model
DiisOrder == 2     \* diisorder
MaxNder == 2       \* largest derivative order of a GeneralHIPBasis
MaxNodes == 3      \* most nodes of a GeneralHIPBasis
MaxDrops == 2      \* drop_first / drop_last calls explored per basis
MaxLength == 3     \* largest element length

EkinVals == {2, 3}
EpotVals == {0 - 5}
EcoulVals == {1}
ExcVals == {0 - 1, 0}
ExxVals == {0 - 1}
DiisErrVals == {ConvThr - 1, DiisThr, DiisThr + 1}

Abs(x) == IF x < 0 THEN 0 - x ELSE x

----------------------------------------------------------------------------
(* OrbitalChannel as Solve sees it *)

\* OrbitalChannel::OrbitalsInitialized: C.n_elem != 0
OrbitalsInitialized(oc) == oc.Cn_elem # 0

\* OrbitalChannel::Restricted
Restricted(oc) == oc.restr

\* OrbitalChannel::Occs
Occs(oc) == oc.occs

SolveChannels ==
    [Cn_elem : {0, 1}, restr : BOOLEAN,
     occs : {[i \in 1..n |-> 1] : n \in Lmax..(Lmax + 1)}]

----------------------------------------------------------------------------
(* The solver's functional setting.  kfrac and kshort are what               *)
(* range_separation(x_func, ...) yields for the solver's x_func.             *)

FuncSettings ==
    { [x_func |-> 0, c_func |-> 0, kfrac |-> 0, kshort |-> 0],
      [x_func |-> 0, c_func |-> 0, kfrac |-> 1, kshort |-> 0],
      [x_func |-> 1, c_func |-> 1, kfrac |-> 0, kshort |-> 0],
      [x_func |-> 1, c_func |-> 0, kfrac |-> 1, kshort |-> 1] }

UsesGrid(s) == s.x_func > 0 \/ s.c_func > 0
UsesExact(s) == s.kfrac # 0 \/ s.kshort # 0

\* What one FockBuild call obtains from the basis, the grid and the exchange
\* operators: tr(P T)+..., tr(P Vnuc), tr(P J)/2, the XC energy, tr(K P)/2.
FockInputsR(s) ==
    { in \in [ekin : EkinVals, epot : EpotVals, ecoul : EcoulVals,
              exc : ExcVals \cup {0}, exx : ExxVals \cup {0}] :
        /\ (UsesGrid(s) => in.exc \in ExcVals)
        /\ (~UsesGrid(s) => in.exc = 0)
        /\ (UsesExact(s) => in.exx \in ExxVals)
        /\ (~UsesExact(s) => in.exx = 0) }

FockInputsU(s) ==
    { in \in [ekin : EkinVals, epot : EpotVals, ecoul : EcoulVals,
              exc : ExcVals, exx : ExxVals \cup {0}] :
        /\ (UsesExact(s) => in.exx \in ExxVals)
        /\ (~UsesExact(s) => in.exx = 0) }

\* A FockBuild that adds the exact-exchange energy to Econf a second time.
FockBuildR_ExxTwice(c, s, in) ==
    LET Exc0 == IF UsesGrid(s) THEN in.exc ELSE 0
        Exc1 == IF UsesExact(s) THEN Exc0 + in.exx ELSE Exc0
    IN  [c EXCEPT !.Ekin = in.ekin, !.Epot = in.epot, !.Ecoul = in.ecoul,
                  !.Exc = Exc1,
                  !.Econf = in.ekin + in.epot + in.ecoul + Exc1 + in.exx]

\* SCFSolver::FockBuild(rconf_t&): the configuration after the call.
FockBuildR(c, s, in) ==
    LET Exc0 == IF UsesGrid(s) THEN in.exc ELSE 0
        Exc1 == IF UsesExact(s) THEN Exc0 + in.exx ELSE Exc0
    IN  [c EXCEPT !.Ekin = in.ekin, !.Epot = in.epot, !.Ecoul = in.ecoul,
                  !.Exc = Exc1,
                  !.Econf = in.ekin + in.epot + in.ecoul + Exc1]

\* SCFSolver::FockBuild(uconf_t&): eval_Fxc is called whatever the functional.
FockBuildU(c, s, in) ==
    LET Exc0 == in.exc
        Exc1 == IF UsesExact(s) THEN Exc0 + in.exx ELSE Exc0
    IN  [c EXCEPT !.Ekin = in.ekin, !.Epot = in.epot, !.Ecoul = in.ecoul,
                  !.Exc = Exc1,
                  !.Econf = in.ekin + in.epot + in.ecoul + Exc1]

\* conf.Fl of FockBuild(rconf_t&): ReplicateCube(H0+J)+kc, then K and XC under
\* their conditions.
FockTermsR(s) ==
    {"H0+J", "kc"} \cup (IF UsesExact(s) THEN {"K"} ELSE {})
                   \cup (IF UsesGrid(s) THEN {"XC"} ELSE {})

\* conf.Fal and conf.Fbl of FockBuild(uconf_t&), which receive the same terms.
FockTermsU(s) ==
    {"H0+J", "kc"} \cup (IF UsesExact(s) THEN {"K"} ELSE {})
                   \cup (IF UsesGrid(s) THEN {"XC"} ELSE {})

\* The value both FockBuild variants return.
FockBuildValue(c) == c.Econf

----------------------------------------------------------------------------
(* Solve: the precondition checks *)

\* Solve(uconf_t&) without the length check of the beta channel.
SolveUCheck_NoBetaLength(c) ==
    IF ~OrbitalsInitialized(c.orbsa) THEN "Orbitals not initialized!"
    ELSE IF ~OrbitalsInitialized(c.orbsb) THEN "Orbitals not initialized!"
    ELSE IF Len(Occs(c.orbsa)) # Lmax + 1
         THEN "Occupation vector is of wrong length!"
    ELSE IF Restricted(c.orbsa)
         THEN "Running unrestricted calculation with restricted orbitals!"
    ELSE IF Restricted(c.orbsb)
         THEN "Running unrestricted calculation with restricted orbitals!"
    ELSE "ok"

\* The throws at the head of Solve(rconf_t&), in order; "ok" when none fires.
SolveRCheck(c) ==
    IF ~OrbitalsInitialized(c.orbs) THEN "Orbitals not initialized!"
    ELSE IF ~Restricted(c.orbs)
         THEN "Running restricted calculation with unrestricted orbitals!"
    ELSE IF Len(Occs(c.orbs)) # Lmax + 1
         THEN "Occupation vector is of wrong length!"
    ELSE "ok"

\* The throws at the head of Solve(uconf_t&), in order; "ok" when none fires.
SolveUCheck(c) ==
    IF ~OrbitalsInitialized(c.orbsa) THEN "Orbitals not initialized!"
    ELSE IF ~OrbitalsInitialized(c.orbsb) THEN "Orbitals not initialized!"
    ELSE IF Len(Occs(c.orbsa)) # Lmax + 1
         THEN "Occupation vector is of wrong length!"
    ELSE IF Len(Occs(c.orbsb)) # Lmax + 1
         THEN "Occupation vector is of wrong length!"
    ELSE IF Restricted(c.orbsa)
         THEN "Running unrestricted calculation with restricted orbitals!"
    ELSE IF Restricted(c.orbsb)
         THEN "Running unrestricted calculation with restricted orbitals!"
    ELSE "ok"

SolveCheck(c) == IF c.kind = "r" THEN SolveRCheck(c) ELSE SolveUCheck(c)

----------------------------------------------------------------------------
(* Solve: the accelerator and the loop *)

\* An accelerator that lives in the solver object: entering Solve keeps it.
DIISKept(old) == old

\* rDIIS diis(...) / uDIIS diis(...): a new object local to the call, no history.
DIISConstruct(old) == <<>>

\* diis.update: the entry of this iteration joins the history, which holds at
\* most diisorder entries.
DIISUpdate(h, entry) ==
    LET all == Append(h, entry)
    IN  IF Len(all) > DiisOrder THEN Tail(all) ELSE all

\* A convergence test that looks at the accelerator error only.
ConvergenceTest_ErrorOnly(err, delta) == err < ConvThr

\* conf.converged=(diiserr<convthr) && (std::abs(dE)<convthr)
ConvergenceTest(err, delta) == (err < ConvThr) /\ (Abs(delta) < ConvThr)

\* A refresh that is level-shifted already at error = diisthr.
RefreshBranch_AtThreshold(err) ==
    IF err >= DiisThr THEN "UpdateOrbitalsShifted" ELSE "UpdateOrbitals"

\* if(diiserr > diisthr) UpdateOrbitalsShifted(...) else UpdateOrbitals(...)
RefreshBranch(err) ==
    IF err > DiisThr THEN "UpdateOrbitalsShifted" ELSE "UpdateOrbitals"

\* The refresh applied to the channels of the configuration: orbs, or orbsa
\* and orbsb, both inside the same branch of the if.
Refreshed(kind, err) ==
    IF kind = "r" THEN <<RefreshBranch(err)>>
    ELSE <<RefreshBranch(err), RefreshBranch(err)>>

\* A loop that never leaves early.
LoopBreak_Never(c) == FALSE

\* if(conf.converged) break;
LoopBreak(c) == c.converged

\* iscf<=maxit
LoopCond(i, s) == i <= s.maxit

\* What Econf of a configuration can hold when it is handed to Solve: the
\* structs have no constructor, and the caller may have evaluated it before.
PriorEnergies == {0 - 2, 0}

FreshConfs ==
    { [kind |-> "r", orbs |-> oc, converged |-> cv,
       Ekin |-> 0, Epot |-> 0, Ecoul |-> 0, Exc |-> 0, Econf |-> e] :
        oc \in SolveChannels, cv \in BOOLEAN, e \in PriorEnergies }
    \cup
    { [kind |-> "u", orbsa |-> cha, orbsb |-> chb, converged |-> cv,
       Ekin |-> 0, Epot |-> 0, Ecoul |-> 0, Exc |-> 0, Econf |-> e] :
        cha \in SolveChannels, chb \in SolveChannels, cv \in BOOLEAN,
        e \in PriorEnergies }

\* A Solve that clears verbose before it checks the configuration.
SolverAtThrow_VerboseCleared(s) == [s EXCEPT !.verbose = FALSE]

\* The solver when a check throws: the throws precede verbose = false.
SolverAtThrow(s) == s

\* A loop whose break precedes the orbital refresh.
RefreshRuns_UnlessConverged(cv) == ~cv

\* The orbital refresh stands before if(conf.converged) break.
RefreshRuns(cv) == TRUE

\* The steps of one pass through the loop body, in program order.
IterationSteps(cv) ==
    <<"FockBuild", "diis.update", "converged", "diis.solve_F", "MiniMat">>
    \o (IF RefreshRuns(cv) THEN <<"UpdateOrbitals">> ELSE <<>>)

NoProgress == [nrefresh |-> 0, built |-> 0, steps |-> <<>>]

Solvers ==
    { [maxit |-> m, x_func |-> f.x_func, c_func |-> f.c_func,
       kfrac |-> f.kfrac, kshort |-> f.kshort, verbose |-> v] :
        m \in 0..MaxIt, f \in FuncSettings, v \in BOOLEAN }

NoPre == [converged |-> FALSE, Econf |-> 0, solved |-> FALSE]

NoInputs == [ekin |-> 0, epot |-> 0, ecoul |-> 0, exc |-> 0, exx |-> 0]

\* A solver has been constructed (verbose is left unset by the constructor)
\* and the caller holds a configuration.
InitSCF ==
    /\ solver \in Solvers
    /\ conf \in FreshConfs
    /\ pc = "idle"
    /\ E = 0 /\ dE = 0 /\ iscf = 0
    /\ diiserr = 0
    /\ diis = <<>>
    /\ ncall = 0 /\ nfock = 0
    /\ testlog = <<>>
    /\ pre = NoPre
    /\ fin = NoInputs
    /\ report = FALSE
    /\ ret = 0
    /\ refresh = <<>>
    /\ fterms = {}
    /\ prog = NoProgress
    /\ before = <<>>

Idle == pc \in {"idle", "returned", "threw"}

\* The caller sets up another configuration for the same solver.
NewConfiguration ==
    /\ pc \in {"returned", "threw"}
    /\ ncall < MaxCalls
    /\ conf' \in FreshConfs
    /\ pc' = "idle"
    /\ E' = 0 /\ dE' = 0 /\ iscf' = 0 /\ diiserr' = 0
    /\ nfock' = 0 /\ testlog' = <<>> /\ pre' = NoPre /\ fin' = NoInputs
    /\ report' = FALSE /\ ret' = 0 /\ refresh' = <<>>
    /\ fterms' = {} /\ prog' = NoProgress /\ before' = <<>>
    /\ UNCHANGED <<solver, diis, ncall>>
    /\ UNCHANGED <<chanvars, ordvars, parvars, packvars, hipvars>>

\* Solve, from its entry to the first evaluation of the loop condition (or to
\* the throw).
SolveEnter ==
    /\ Idle
    /\ ncall < MaxCalls
    /\ ncall' = ncall + 1
    /\ pre' = [converged |-> conf.converged, Econf |-> conf.Econf,
               solved |-> (pc = "returned")]
    /\ nfock' = 0 /\ testlog' = <<>> /\ report' = FALSE /\ ret' = 0
    /\ dE' = 0 /\ fin' = NoInputs /\ refresh' = <<>>
    /\ fterms' = {} /\ prog' = NoProgress /\ before' = <<conf, solver>>
    /\ IF SolveCheck(conf) # "ok"
       THEN /\ pc' = "threw"
            /\ E' = 0 /\ iscf' = 0 /\ diiserr' = 0
            /\ solver' = SolverAtThrow(solver)
            /\ UNCHANGED <<conf, diis>>
       ELSE /\ solver' = [solver EXCEPT !.verbose = FALSE]
            /\ diis' = DIISConstruct(diis)
            /\ diiserr' \in DiisErrVals      \* double diiserr; has no initializer
            /\ E' = 0
            /\ iscf' = 1
            /\ pc' = IF LoopCond(1, solver) THEN "loop" ELSE "exit"
            /\ UNCHANGED conf
    /\ UNCHANGED <<chanvars, ordvars, parvars, packvars, hipvars>>

\* One pass through the loop body, up to the break or the next evaluation of
\* the loop condition.
Iterate ==
    /\ pc = "loop"
    /\ \E in \in (IF conf.kind = "r" THEN FockInputsR(solver) ELSE FockInputsU(solver)),
          err \in DiisErrVals :
        LET built == IF conf.kind = "r" THEN FockBuildR(conf, solver, in)
                                        ELSE FockBuildU(conf, solver, in)
            Enew == FockBuildValue(built)
            delta == Enew - E
            after == [built EXCEPT !.converged = ConvergenceTest(err, delta)]
        IN  /\ E' = Enew
            /\ dE' = delta
            /\ nfock' = nfock + 1
            /\ fin' = in
            /\ diis' = DIISUpdate(diis, [call |-> ncall, it |-> iscf])
            /\ diiserr' = err
            /\ testlog' = Append(testlog, ConvergenceTest(err, delta))
            /\ conf' = after
            /\ refresh' = Refreshed(conf.kind, err)
            /\ fterms' = (IF conf.kind = "r" THEN FockTermsR(solver)
                                             ELSE FockTermsU(solver))
            /\ prog' = [nrefresh |-> prog.nrefresh
                                      + (IF RefreshRuns(after.converged) THEN 1 ELSE 0),
                        built |-> prog.nrefresh,
                        steps |-> IterationSteps(after.converged)]
            /\ IF LoopBreak(after)
               THEN /\ iscf' = iscf
                    /\ pc' = "exit"
               ELSE /\ iscf' = iscf + 1
                    /\ pc' = IF LoopCond(iscf + 1, solver) THEN "loop" ELSE "exit"
    /\ UNCHANGED <<solver, ncall, pre, report, ret, before>>
    /\ UNCHANGED <<chanvars, ordvars, parvars, packvars, hipvars>>

\* Solve after the loop: the report of non-convergence and the return.
SolveReturn ==
    /\ pc = "exit"
    /\ report' = (iscf > solver.maxit)
    /\ ret' = E
    /\ pc' = "returned"
    /\ UNCHANGED <<solver, conf, E, dE, iscf, diiserr, diis, ncall, nfock,
                   testlog, pre, fin, refresh, fterms, prog, before>>
    /\ UNCHANGED <<chanvars, ordvars, parvars, packvars, hipvars>>

NextSCF == NewConfiguration \/ SolveEnter \/ Iterate \/ SolveReturn

\* The SCF variables while another part of the program is explored.
QuietSCF ==
    /\ solver = [maxit |-> 0, x_func |-> 0, c_func |-> 0, kfrac |-> 0,
                 kshort |-> 0, verbose |-> FALSE]
    /\ conf = [kind |-> "none"]
    /\ pc = "off"
    /\ E = 0 /\ dE = 0 /\ iscf = 0 /\ diiserr = 0
    /\ diis = <<>> /\ ncall = 0 /\ nfock = 0 /\ testlog = <<>>
    /\ pre = NoPre /\ fin = NoInputs /\ report = FALSE /\ ret = 0
    /\ refresh = <<>> /\ fterms = {} /\ prog = NoProgress /\ before = <<>>

----------------------------------------------------------------------------
(* OrbitalChannel: occupations *)

Nrad == 2          \* radial solutions per angular channel (E.n_rows)
MaxNumel == 5      \* largest numel handed to AufbauOccupations
MaxOcc == 2        \* largest occupation handed to SetOccs

Min(a, b) == IF a < b THEN a ELSE b

RECURSIVE SumSeq(_)
SumSeq(q) == IF Len(q) = 0 THEN 0 ELSE Head(q) + SumSeq(Tail(q))

Zeros(n) == [i \in 1..n |-> 0]

\* A capacity that ignores the restricted flag.
ShellCapacity_Unrestricted(c, l) == 2 * l + 1

\* OrbitalChannel::ShellCapacity
ShellCapacity(c, l) == IF c.restr THEN 4 * l + 2 ELSE 2 * l + 1

\* OrbitalChannel::Nel
Nel(c) == SumSeq(c.occs)

\* The flattened shells of AufbauOccupations: entry l*Nrad+io carries E(io,l)
\* and l.
FlatShells(c) ==
    LET nr == IF Len(c.E) = 0 THEN 0 ELSE Len(c.E[1])
    IN  [k \in 1..(Len(c.E) * nr) |->
            [E |-> c.E[((k - 1) \div nr) + 1][((k - 1) % nr) + 1],
             l |-> (k - 1) \div nr]]

\* A fill that gives every shell it touches its whole capacity.
AufbauNocc_WholeShell(c, l, numel) == ShellCapacity(c, l)

\* arma::sword nocc = std::min(ShellCapacity(l), numel)
AufbauNocc(c, l, numel) == Min(ShellCapacity(c, l), numel)

\* A fill that takes the shells in the order of the flattened vector.
NextShells_Unsorted(sh, left) == { k \in left : \A j \in left : k <= j }

\* The shells that sort_index may put next: those of lowest energy among the
\* ones not yet placed.  sort_index is not stable, so equal energies come in
\* any order; of several tied shells of one l only the first is listed, the
\* fill loop reading nothing of a shell but its l.
NextShells(sh, left) ==
    LET low == { k \in left : \A j \in left : sh[k].E <= sh[j].E }
    IN  { k \in low : \A j \in low : sh[j].l = sh[k].l => k <= j }

\* The loop of AufbauOccupations over the sorted shells, for every order the
\* sort may produce: the set of occupation vectors it can end with.
RECURSIVE AufbauFill(_, _, _, _, _)
AufbauFill(c, sh, left, occs, numel) ==
    IF left = {} THEN {occs}
    ELSE UNION {
        LET l == sh[k].l
            nocc == AufbauNocc(c, l, numel)
            occs2 == [occs EXCEPT ![l + 1] = @ + nocc]
            numel2 == numel - nocc
        IN  IF numel2 = 0 THEN {occs2}
            ELSE AufbauFill(c, sh, left \ {k}, occs2, numel2)
        : k \in NextShells(sh, left) }

\* OrbitalChannel::AufbauOccupations: the occupation vectors it can leave.
AufbauOccupations(c, numel) ==
    LET sh == FlatShells(c)
    IN  AufbauFill(c, sh, DOMAIN sh, Zeros(c.lmax + 1), numel)

\* A move that takes the electrons out of shell_from and puts them nowhere.
Moved_NoCredit(c, from, to, nmove) ==
    [c EXCEPT !.occs = [c.occs EXCEPT ![from + 1] = @ - nmove]]

\* newch.occs(shell_from)-=nmove; newch.occs(shell_to)+=nmove
Moved(c, from, to, nmove) ==
    LET taken == [c.occs EXCEPT ![from + 1] = @ - nmove]
    IN  [c EXCEPT !.occs = [taken EXCEPT ![to + 1] = @ + nmove]]

\* A MoveElectrons that moves electrons a shell does not hold.
CanMove_Always(c, from, nmove) == TRUE

\* if(occs(shell_from)<nmove) continue;
CanMove(c, from, nmove) == ~(c.occs[from + 1] < nmove)

\* The three nested loops of MoveElectrons, from (from, to, nmove) on.
RECURSIVE MoveLoop(_, _, _, _, _)
MoveLoop(c, from, to, nmove, ret_) ==
    IF from > c.lmax THEN ret_
    ELSE IF to > c.lmax THEN MoveLoop(c, from + 1, 0, 1, ret_)
    ELSE IF nmove > Min(ShellCapacity(c, from), ShellCapacity(c, to))
         THEN MoveLoop(c, from, to + 1, 1, ret_)
    ELSE IF ~CanMove(c, from, nmove)
         THEN MoveLoop(c, from, to, nmove + 1, ret_)
    ELSE MoveLoop(c, from, to, nmove + 1, Append(ret_, Moved(c, from, to, nmove)))

\* A MoveElectrons without the dummy list.
MoveElectrons_NoSentinel(c) == MoveLoop(c, 0, 0, 1, <<>>)

\* OrbitalChannel::MoveElectrons
MoveElectrons(c) ==
    LET ret_ == MoveLoop(c, 0, 0, 1, <<>>)
    IN  IF Len(ret_) = 0
        THEN <<[c EXCEPT !.occs = Zeros(c.lmax + 1)]>>
        ELSE ret_

\* Energies of one angular channel: ascending, as the eigensolver returns
\* them; a ladder that starts at base b and rises by gap g per node.
Columns ==
    { [i \in 1..Nrad |-> b + (i - 1) * g] : b \in {1, 2}, g \in {1, 2} }

\* Channels as SCFSolver::Initialize leaves them (SetLmax, UpdateOrbitals),
\* before any occupation is assigned; lmax = -1 is OrbitalChannel(bool) alone.
InitialChannels ==
    UNION { { [restr |-> r, lmax |-> lm, E |-> e, occs |-> <<>>] :
                r \in BOOLEAN, e \in [1..(lm + 1) -> Columns] } : lm \in 0..Lmax }
    \cup { [restr |-> r, lmax |-> 0 - 1, E |-> <<>>, occs |-> <<>>] : r \in BOOLEAN }

NoOp == [name |-> "none", numel |-> 0]

NoOut == [name |-> "none"]

InitChannel ==
    /\ ch \in InitialChannels
    /\ op = NoOp
    /\ moves = <<>>
    /\ out = NoOut

QuietChannel ==
    /\ ch = [restr |-> TRUE, lmax |-> 0 - 1, E |-> <<>>, occs |-> <<>>]
    /\ op = NoOp
    /\ moves = <<>>
    /\ out = NoOut

\* The caller assigns occupations (OrbitalChannel::SetOccs).
SetOccs ==
    /\ \E o \in [1..(ch.lmax + 1) -> 0..MaxOcc] :
          ch' = [ch EXCEPT !.occs = o]
    /\ op' = [name |-> "SetOccs", numel |-> 0]
    /\ moves' = <<>>
    /\ out' = NoOut
    /\ UNCHANGED <<scfvars, ordvars, parvars, packvars, hipvars>>

\* The caller takes one of the channels MoveElectrons returned as its next trial.
TakeMove ==
    /\ op.name = "MoveElectrons"
    /\ \E i \in 1..Len(moves) : ch' = moves[i]
    /\ op' = [name |-> "SetOccs", numel |-> 0]
    /\ moves' = <<>>
    /\ out' = NoOut
    /\ UNCHANGED <<scfvars, ordvars, parvars, packvars, hipvars>>

AufbauCall ==
    /\ \E numel \in 0..MaxNumel :
          /\ \E o \in AufbauOccupations(ch, numel) : ch' = [ch EXCEPT !.occs = o]
          /\ op' = [name |-> "AufbauOccupations", numel |-> numel]
    /\ moves' = <<>>
    /\ out' = NoOut
    /\ UNCHANGED <<scfvars, ordvars, parvars, packvars, hipvars>>

MoveElectronsCall ==
    /\ Len(ch.occs) = ch.lmax + 1
    /\ moves' = MoveElectrons(ch)
    /\ op' = [name |-> "MoveElectrons", numel |-> 0]
    /\ out' = NoOut
    /\ UNCHANGED ch
    /\ UNCHANGED <<scfvars, ordvars, parvars, packvars, hipvars>>

NextChannel == SetOccs \/ TakeMove \/ AufbauCall \/ MoveElectronsCall

----------------------------------------------------------------------------
(* OrbitalChannel: the occupied shells, the density, the orbital dump *)

MaxShell == 6      \* largest l handed to ShellCapacity
NPoints == 2       \* radial coordinates of the basis (basis.radii())

\* E.n_rows, which is also C.n_cols: UpdateOrbitals* resizes E to
\* (F.n_rows, lmax+1) and C to (F.n_rows, F.n_rows, lmax+1).
Nmo(c) == IF Len(c.E) = 0 THEN 0 ELSE Len(c.E[1])

Range(q) == { q[i] : i \in 1..Len(q) }

RECURSIVE Flatten(_)
Flatten(qq) == IF Len(qq) = 0 THEN <<>> ELSE Head(qq) \o Flatten(Tail(qq))

\* The inner loop of GetOccupied for one l, from node io on with numl
\* electrons still to place.
RECURSIVE OccupiedOfL(_, _, _, _)
OccupiedOfL(c, l, io, numl) ==
    IF io >= Nmo(c) THEN <<>>
    ELSE LET nocc == Min(ShellCapacity(c, l), numl)
         IN  IF nocc = 0 THEN <<>>
             ELSE <<[n |-> l + io + 1, l |-> l, E |-> c.E[l + 1][io + 1],
                     nocc |-> nocc]>>
                  \o OccupiedOfL(c, l, io + 1, numl - nocc)

\* The outer loop of GetOccupied: occlist before the sort.
RECURSIVE OccupiedFrom(_, _)
OccupiedFrom(c, l) ==
    IF l >= Len(c.E) THEN <<>>
    ELSE OccupiedOfL(c, l, 0, c.occs[l + 1]) \o OccupiedFrom(c, l + 1)

\* std::sort under operator<(shell_occupation_t): every arrangement in
\* non-decreasing E; shells of equal E may come in any order.
RECURSIVE SortedByE(_)
SortedByE(S) ==
    IF S = {} THEN {<<>>}
    ELSE UNION { { <<x>> \o t : t \in SortedByE(S \ {x}) } :
                 x \in { y \in S : \A z \in S : y.E <= z.E } }

\* A GetOccupied that returns the list as collected, without the sort.
GetOccupied_Unsorted(c) == { OccupiedFrom(c, 0) }

\* OrbitalChannel::GetOccupied: the lists it can return.
GetOccupied(c) == SortedByE(Range(OccupiedFrom(c, 0)))

\* The loop of CountOccupied.
RECURSIVE CountLoop(_, _, _, _)
CountLoop(c, l, nsh, numl) ==
    IF nsh >= Nmo(c) THEN nsh
    ELSE LET nocc == Min(ShellCapacity(c, l), numl)
         IN  IF nocc = 0 THEN nsh
             ELSE CountLoop(c, l, nsh + 1, numl - nocc)

\* OrbitalChannel::CountOccupied
CountOccupied(c, l) == CountLoop(c, l, 0, c.occs[l + 1])

\* A density that puts at most one electron on a node.
DensityNocc_Single(c, l, numl) == Min(1, numl)

\* arma::sword nocc = std::min(ShellCapacity(l), numl), in UpdateDensity
DensityNocc(c, l, numl) == Min(ShellCapacity(c, l), numl)

\* The inner loop of UpdateDensity: w[io] is the factor with which
\* C.slice(l).col(io) * C.slice(l).col(io).t() has entered Pl.slice(l).
RECURSIVE DensityLoop(_, _, _, _, _)
DensityLoop(c, l, io, numl, w) ==
    IF io >= Nmo(c) THEN w
    ELSE LET nocc == DensityNocc(c, l, numl)
             w2 == [w EXCEPT ![io + 1] = @ + nocc]
         IN  IF nocc = 0 THEN w2
             ELSE DensityLoop(c, l, io + 1, numl - nocc, w2)

\* OrbitalChannel::UpdateDensity: Pl, slice by slice.
UpdateDensity(c) ==
    [k \in 1..(c.lmax + 1) |->
        DensityLoop(c, k - 1, 0, c.occs[k], Zeros(Nmo(c)))]

\* orbval[l]: basis.orbitals(Cl) has one row per radial point and one column
\* per selected orbital; where nothing is selected orbval[l] stays the empty
\* matrix it was constructed as.
Orbval(l, iocc) ==
    IF Len(iocc) = 0 THEN [n_rows |-> 0, cols |-> <<>>]
    ELSE [n_rows |-> NPoints,
          cols |-> [k \in 1..Len(iocc) |-> [l |-> l, io |-> iocc[k]]]]

\* The file Save writes, given the list GetOccupied returned: the header, the
\* three lines per orbital and the lines per radial point.
SaveDump(c, occlist) ==
    LET per(l) == SelectSeq(occlist, LAMBDA sh : sh.l = l)
        iocc == [k \in 1..(c.lmax + 1) |->
                    [i \in 1..Len(per(k - 1)) |-> per(k - 1)[i].n - (k - 1) - 1]]
        occnum == [k \in 1..(c.lmax + 1) |->
                    [i \in 1..Len(per(k - 1)) |-> per(k - 1)[i].nocc]]
        Eorb == [k \in 1..(c.lmax + 1) |->
                    [i \in 1..Len(per(k - 1)) |-> per(k - 1)[i].E]]
        norb == SumSeq([k \in 1..(c.lmax + 1) |-> Len(iocc[k])])
        orbval == [k \in 1..(c.lmax + 1) |-> Orbval(k - 1, iocc[k])]
    IN  [header |-> <<orbval[1].n_rows, norb>>,
         lvals |-> Flatten([k \in 1..(c.lmax + 1) |->
                                [i \in 1..Len(Eorb[k]) |-> k - 1]]),
         occnums |-> Flatten(occnum),
         energies |-> Flatten(Eorb),
         rows |-> [ir \in 1..orbval[1].n_rows |->
                     [r |-> ir,
                      amps |-> Flatten([k \in 1..(c.lmax + 1) |->
                                  [ic \in 1..Len(orbval[k].cols) |->
                                      [l |-> orbval[k].cols[ic].l,
                                       io |-> orbval[k].cols[ic].io,
                                       ir |-> ir]]])]]]

\* OrbitalChannel::Save: the files it can write.
Save(c) == { SaveDump(c, occlist) : occlist \in GetOccupied(c) }

\* The occupations have been assigned for the channel's lmax, so occs(l) is
\* readable for every l the loops visit.
OccsAssigned(c) == c.lmax >= 0 /\ Len(c.occs) = c.lmax + 1

ShellCapacityCall ==
    /\ \E l \in 0..MaxShell :
          out' = [name |-> "ShellCapacity", l |-> l, val |-> ShellCapacity(ch, l)]
    /\ UNCHANGED <<ch, op, moves>>
    /\ UNCHANGED <<scfvars, ordvars, parvars, packvars, hipvars>>

GetOccupiedCall ==
    /\ OccsAssigned(ch)
    /\ \E occlist \in GetOccupied(ch) :
          out' = [name |-> "GetOccupied", val |-> occlist]
    /\ UNCHANGED <<ch, op, moves>>
    /\ UNCHANGED <<scfvars, ordvars, parvars, packvars, hipvars>>

UpdateDensityCall ==
    /\ OccsAssigned(ch)
    /\ ~(out.name = "refresh" /\ out.threw)
    /\ out' = [name |-> "UpdateDensity", val |-> UpdateDensity(ch)]
    /\ UNCHANGED <<ch, op, moves>>
    /\ UNCHANGED <<scfvars, ordvars, parvars, packvars, hipvars>>

SaveCall ==
    /\ OccsAssigned(ch)
    /\ \E dump \in Save(ch) : out' = [name |-> "Save", val |-> dump]
    /\ UNCHANGED <<ch, op, moves>>
    /\ UNCHANGED <<scfvars, ordvars, parvars, packvars, hipvars>>

NextOccupied ==
    \/ SetOccs \/ AufbauCall
    \/ ShellCapacityCall \/ GetOccupiedCall \/ UpdateDensityCall \/ SaveCall

----------------------------------------------------------------------------
(* OrbitalChannel: the orbital refresh *)

MaxShift == 1      \* largest level shift handed to UpdateOrbitalsShifted

RECURSIVE Insert(_, _)
Insert(x, q) ==
    IF Len(q) = 0 THEN <<x>>
    ELSE IF x <= Head(q) THEN <<x>> \o q
    ELSE <<Head(q)>> \o Insert(x, Tail(q))

\* helfem::scf::eig_gsym, for a Fock slice given by its diagonal in the basis
\* of the channel's current orbitals: the eigenvalues, ascending.
RECURSIVE EigGsym(_)
EigGsym(Fl) == IF Len(Fl) = 0 THEN <<>> ELSE Insert(Head(Fl), EigGsym(Tail(Fl)))

\* Diagonals of a Fock slice, F.n_rows = Nrad entries.
FockDiagonals == { [i \in 1..Nrad |-> b + 2 * (i - 1)] : b \in {1, 2} }

\* The Fock cubes handed to a refresh: lmax+1 slices.
FockCubes(c) == [1..(c.lmax + 1) -> FockDiagonals]

\* A refresh that also resets the occupations.
UpdateOrbitals_ClearsOccs(c, F) ==
    [c EXCEPT !.E = [k \in 1..(c.lmax + 1) |-> EigGsym(F[k])],
              !.occs = [k \in 1..Len(c.occs) |-> 0]]

\* OrbitalChannel::UpdateOrbitals
UpdateOrbitals(c, F) ==
    [c EXCEPT !.E = [k \in 1..(c.lmax + 1) |-> EigGsym(F[k])]]

\* Fl + shift*S*Cv*Cv.t()*S with Cv the columns nsh .. C.n_cols-1: the shift
\* is added to the diagonal entries of those orbitals.
ShiftedFock(Fl, nsh, shift) ==
    [i \in 1..Len(Fl) |-> Fl[i] + (IF i - 1 >= nsh THEN shift ELSE 0)]

\* Entry (i, j) of Fmo lies in Fmo(oidx, vidx) or Fmo(vidx, oidx).
InOVBlock(i, j, nsh) == (i < nsh) # (j < nsh)

\* C*Fmo*C.t() with the occupied-virtual blocks of Fmo scaled by dampov, on
\* the diagonal entries Fl is kept by.
DampedFock(Fl, nsh, dampov) ==
    [i \in 1..Len(Fl) |->
        IF InOVBlock(i - 1, i - 1, nsh) THEN Fl[i] * dampov ELSE Fl[i]]

\* OrbitalChannel::UpdateOrbitalsDamped
UpdateOrbitalsDamped(c, F, dampov) ==
    [c EXCEPT !.E = [k \in 1..(c.lmax + 1) |->
        LET nsh == CountOccupied(c, k - 1)
        IN  EigGsym(IF nsh # 0 THEN DampedFock(F[k], nsh, dampov) ELSE F[k])]]

\* A refresh that shifts whether or not the channel holds electrons.
ShiftApplies_Always(nsh) == TRUE

\* if(nsh)
ShiftApplies(nsh) == nsh # 0

\* The loop of UpdateOrbitalsShifted from l on; Eacc is E as assigned so far.
\* With nsh = C.n_cols the column range (nsh, C.n_cols-1) is out of bounds:
\* the call ends in the library's bounds error, or, with the bounds checks
\* compiled out, goes on with an empty Cv.
RECURSIVE ShiftedLoop(_, _, _, _, _)
ShiftedLoop(c, F, shift, l, Eacc) ==
    IF l > c.lmax THEN { [E |-> Eacc, threw |-> FALSE] }
    ELSE LET nsh == CountOccupied(c, l)
             plain == [Eacc EXCEPT ![l + 1] = EigGsym(F[l + 1])]
             shifted == [Eacc EXCEPT
                            ![l + 1] = EigGsym(ShiftedFock(F[l + 1], nsh, shift))]
         IN  IF ~ShiftApplies(nsh) THEN ShiftedLoop(c, F, shift, l + 1, plain)
             ELSE IF nsh >= Nmo(c)
                  THEN { [E |-> Eacc, threw |-> TRUE] }
                       \cup ShiftedLoop(c, F, shift, l + 1, shifted)
             ELSE ShiftedLoop(c, F, shift, l + 1, shifted)

\* OrbitalChannel::UpdateOrbitalsShifted: the outcomes it can have.
UpdateOrbitalsShifted(c, F, shift) == ShiftedLoop(c, F, shift, 0, c.E)

\* A channel after SCFSolver::Initialize and an assignment of occupations.
InitRefresh ==
    /\ \E c \in InitialChannels :
          \E o \in [1..(c.lmax + 1) -> 0..MaxOcc] : ch = [c EXCEPT !.occs = o]
    /\ op = [name |-> "SetOccs", numel |-> 0]
    /\ moves = <<>>
    /\ out = NoOut

\* The latest refresh ended in the bounds error: the exception leaves the
\* caller, no further call is made on the channel.
Threw == out.name = "refresh" /\ out.threw

UpdateOrbitalsCall ==
    /\ ~Threw
    /\ \E F \in FockCubes(ch) :
          /\ ch' = UpdateOrbitals(ch, F)
          /\ out' = [name |-> "refresh", F |-> F, shift |-> 0, threw |-> FALSE]
    /\ op' = [name |-> "UpdateOrbitals", numel |-> 0]
    /\ moves' = <<>>
    /\ UNCHANGED <<scfvars, ordvars, parvars, packvars, hipvars>>

UpdateOrbitalsShiftedCall ==
    /\ ~Threw
    /\ Len(ch.occs) = ch.lmax + 1
    /\ \E F \in FockCubes(ch), shift \in 0..MaxShift :
          \E r \in UpdateOrbitalsShifted(ch, F, shift) :
              /\ ch' = [ch EXCEPT !.E = r.E]
              /\ out' = [name |-> "refresh", F |-> F, shift |-> shift,
                          threw |-> r.threw]
    /\ op' = [name |-> "UpdateOrbitalsShifted", numel |-> 0]
    /\ moves' = <<>>
    /\ UNCHANGED <<scfvars, ordvars, parvars, packvars, hipvars>>

UpdateOrbitalsDampedCall ==
    /\ ~Threw
    /\ Len(ch.occs) = ch.lmax + 1
    /\ \E F \in FockCubes(ch), dampov \in 0..MaxShift :
          /\ ch' = UpdateOrbitalsDamped(ch, F, dampov)
          /\ out' = [name |-> "refresh", F |-> F, shift |-> 0, threw |-> FALSE]
    /\ op' = [name |-> "UpdateOrbitalsDamped", numel |-> 0]
    /\ moves' = <<>>
    /\ UNCHANGED <<scfvars, ordvars, parvars, packvars, hipvars>>

NextRefresh ==
    \/ UpdateOrbitalsCall
    \/ UpdateOrbitalsShiftedCall
    \/ UpdateOrbitalsDampedCall
    \/ UpdateDensityCall

----------------------------------------------------------------------------
(* The ordering of configurations *)

ConfEnergies == {0 - 2, 0 - 1, 0}

\* operator< that looks at the energy only.
LessR_EnergyOnly(lh, rh) == lh.Econf < rh.Econf

\* bool operator<(const rconf_t & lh, const rconf_t & rh)
LessR(lh, rh) ==
    IF lh.converged /\ ~rh.converged THEN TRUE
    ELSE IF rh.converged /\ ~lh.converged THEN FALSE
    ELSE lh.Econf < rh.Econf

\* operator< that compares the energies with <=.
LessU_OrEqual(lh, rh) ==
    IF lh.converged /\ ~rh.converged THEN TRUE
    ELSE IF rh.converged /\ ~lh.converged THEN FALSE
    ELSE lh.Econf <= rh.Econf

\* bool operator<(const uconf_t & lh, const uconf_t & rh)
LessU(lh, rh) ==
    IF lh.converged /\ ~rh.converged THEN TRUE
    ELSE IF rh.converged /\ ~lh.converged THEN FALSE
    ELSE lh.Econf < rh.Econf

RankedConfs == [converged : BOOLEAN, Econf : ConfEnergies]

InitOrder ==
    cmp \in [kind : {"r", "u"}, lh : RankedConfs, rh : RankedConfs,
             done : {FALSE}, less : {FALSE}]

QuietOrder ==
    cmp = [kind |-> "r", lh |-> [converged |-> FALSE, Econf |-> 0],
           rh |-> [converged |-> FALSE, Econf |-> 0],
           done |-> FALSE, less |-> FALSE]

\* lh < rh is evaluated.
Compare ==
    /\ ~cmp.done
    /\ cmp' = [cmp EXCEPT !.done = TRUE,
                          !.less = IF cmp.kind = "r" THEN LessR(cmp.lh, cmp.rh)
                                                     ELSE LessU(cmp.lh, cmp.rh)]
    /\ UNCHANGED <<scfvars, chanvars, parvars, packvars, hipvars>>

\* Two other configurations are put up for comparison.
NextPair ==
    /\ cmp.done
    /\ cmp' \in [kind : {"r", "u"}, lh : RankedConfs, rh : RankedConfs,
                 done : {FALSE}, less : {FALSE}]
    /\ UNCHANGED <<scfvars, chanvars, parvars, packvars, hipvars>>

NextOrder == Compare \/ NextPair

----------------------------------------------------------------------------
(* Two Solve calls on one solver *)

Threads == {1, 2}

\* The fields of SCFSolver that Solve and FockBuild touch, per step of Solve.
ReadsCheck == {"lmax"}
ReadsConstruct == {"verbose", "S", "Sinvh", "lmax", "diiseps", "diisthr", "diisorder"}
ReadsLoopCond == {"maxit"}
ReadsFockBuild == {"verbose", "T", "Tl", "lmax", "Vnuc", "H0", "basis", "atbasis",
                   "grid", "atgrid", "x_func", "c_func", "x_pars", "c_pars", "dftthr"}
ReadsUpdate == {"verbose", "lmax", "convthr"}
ReadsRefresh == {"lmax", "diisthr", "shift", "Sinvh", "S"}
ReadsPost == {"maxit", "verbose"}

\* verbose = false;
WritesEntry == {"verbose"}

Accesses(t, locs, w) == { [t |-> t, loc |-> x, w |-> w] : x \in locs }

InitParallel ==
    /\ psolver \in [verbose : BOOLEAN, maxit : 0..MaxIt]
    /\ thr = [t \in Threads |-> [pc |-> "check", iscf |-> 0, converged |-> FALSE]]
    /\ acc = {}

QuietParallel ==
    /\ psolver = [verbose |-> FALSE, maxit |-> 0]
    /\ thr = [t \in Threads |-> [pc |-> "off", iscf |-> 0, converged |-> FALSE]]
    /\ acc = {}

\* The precondition checks (the configurations are valid and differ).
P_Check(t) ==
    /\ thr[t].pc = "check"
    /\ thr' = [thr EXCEPT ![t].pc = "entry"]
    /\ acc' = acc \cup Accesses(t, ReadsCheck, FALSE)
    /\ UNCHANGED psolver
    /\ UNCHANGED <<scfvars, chanvars, ordvars, packvars, hipvars>>

P_Entry(t) ==
    /\ thr[t].pc = "entry"
    /\ psolver' = [psolver EXCEPT !.verbose = FALSE]
    /\ thr' = [thr EXCEPT ![t].pc = "construct"]
    /\ acc' = acc \cup Accesses(t, WritesEntry, TRUE)
    /\ UNCHANGED <<scfvars, chanvars, ordvars, packvars, hipvars>>

\* if(verbose) ...; the accelerator is constructed; iscf=1.
P_Construct(t) ==
    /\ thr[t].pc = "construct"
    /\ thr' = [thr EXCEPT ![t].pc = "loopcond", ![t].iscf = 1]
    /\ acc' = acc \cup Accesses(t, ReadsConstruct, FALSE)
    /\ UNCHANGED psolver
    /\ UNCHANGED <<scfvars, chanvars, ordvars, packvars, hipvars>>

P_LoopCond(t) ==
    /\ thr[t].pc = "loopcond"
    /\ thr' = [thr EXCEPT ![t].pc = IF thr[t].iscf <= psolver.maxit
                                    THEN "fockbuild" ELSE "post"]
    /\ acc' = acc \cup Accesses(t, ReadsLoopCond, FALSE)
    /\ UNCHANGED psolver
    /\ UNCHANGED <<scfvars, chanvars, ordvars, packvars, hipvars>>

P_FockBuild(t) ==
    /\ thr[t].pc = "fockbuild"
    /\ thr' = [thr EXCEPT ![t].pc = "update"]
    /\ acc' = acc \cup Accesses(t, ReadsFockBuild, FALSE)
    /\ UNCHANGED psolver
    /\ UNCHANGED <<scfvars, chanvars, ordvars, packvars, hipvars>>

\* The accelerator update and the convergence test on the thread's own conf.
P_Update(t) ==
    /\ thr[t].pc = "update"
    /\ \E cv \in BOOLEAN :
          thr' = [thr EXCEPT ![t].pc = "refresh", ![t].converged = cv]
    /\ acc' = acc \cup Accesses(t, ReadsUpdate, FALSE)
    /\ UNCHANGED psolver
    /\ UNCHANGED <<scfvars, chanvars, ordvars, packvars, hipvars>>

\* The orbital refresh, then the break or iscf++.
P_Refresh(t) ==
    /\ thr[t].pc = "refresh"
    /\ thr' = IF thr[t].converged
              THEN [thr EXCEPT ![t].pc = "post"]
              ELSE [thr EXCEPT ![t].pc = "loopcond", ![t].iscf = @ + 1]
    /\ acc' = acc \cup Accesses(t, ReadsRefresh, FALSE)
    /\ UNCHANGED psolver
    /\ UNCHANGED <<scfvars, chanvars, ordvars, packvars, hipvars>>

P_Post(t) ==
    /\ thr[t].pc = "post"
    /\ thr' = [thr EXCEPT ![t].pc = "done"]
    /\ acc' = acc \cup Accesses(t, ReadsPost, FALSE)
    /\ UNCHANGED psolver
    /\ UNCHANGED <<scfvars, chanvars, ordvars, packvars, hipvars>>

NextParallel ==
    \E t \in Threads :
        \/ P_Check(t) \/ P_Entry(t) \/ P_Construct(t) \/ P_LoopCond(t)
        \/ P_FockBuild(t) \/ P_Update(t) \/ P_Refresh(t) \/ P_Post(t)

----------------------------------------------------------------------------
(* Packing the per-l Fock and density cubes for the accelerator.  A matrix  *)
(* is a sequence of rows, a cube a sequence of lmax+1 matrices; armadillo's *)
(* 0-based index i is position i+1.                                         *)

NRows(A) == Len(A)
NCols(A) == IF Len(A) = 0 THEN 0 ELSE Len(A[1])

\* arma::mat(r, c) after zeros()
ZeroMat(r, c) == [i \in 1..r |-> [j \in 1..c |-> 0]]

\* A.submat(r0, c0, r1, c1) = B
SetSubmat(A, r0, c0, r1, c1, B) ==
    [i \in 1..NRows(A) |-> [j \in 1..NCols(A) |->
        IF (i - 1) \in r0..r1 /\ (j - 1) \in c0..c1
        THEN B[i - r0][j - c0] ELSE A[i][j]]]

\* A.submat(r0, c0, r1, c1)
Submat(A, r0, c0, r1, c1) ==
    [i \in 1..(r1 - r0 + 1) |-> [j \in 1..(c1 - c0 + 1) |-> A[r0 + i][c0 + j]]]

\* The loop of SuperCube from l on.
RECURSIVE SuperCubeLoop(_, _, _, _)
SuperCubeLoop(M, lmax, l, Msuper) ==
    IF l > lmax THEN Msuper
    ELSE LET n_rows == NRows(M[1])
             n_cols == NCols(M[1])
         IN  SuperCubeLoop(M, lmax, l + 1,
                 SetSubmat(Msuper, l * n_rows, l * n_cols,
                           (l + 1) * n_rows - 1, (l + 1) * n_cols - 1, M[l + 1]))

\* SCFSolver::SuperCube
SuperCube(M, lmax) ==
    SuperCubeLoop(M, lmax, 0,
                  ZeroMat(NRows(M[1]) * (lmax + 1), NCols(M[1]) * (lmax + 1)))

\* A MiniMat that reads every slice from the first diagonal block.
MiniMat_FirstBlock(Msuper, lmax) ==
    LET n_rows == NRows(Msuper) \div (lmax + 1)
        n_cols == NCols(Msuper) \div (lmax + 1)
    IN  [k \in 1..(lmax + 1) |-> Submat(Msuper, 0, 0, n_rows - 1, n_cols - 1)]

\* SCFSolver::MiniMat
MiniMat(Msuper, lmax) ==
    LET n_rows == NRows(Msuper) \div (lmax + 1)
        n_cols == NCols(Msuper) \div (lmax + 1)
    IN  [k \in 1..(lmax + 1) |->
            Submat(Msuper, (k - 1) * n_rows, (k - 1) * n_cols,
                   k * n_rows - 1, k * n_cols - 1)]

\* The slices of conf.Fl and conf.Pl: Nrad x Nrad matrices without a zero
\* entry, so that a slice differs from the zero fill of the supermatrix.
Slices ==
    { [i \in 1..Nrad |-> [j \in 1..Nrad |-> a * i + b * j]] :
        a \in 0..2, b \in 1..2 }

NoMat == <<>>

\* A solver of some lmax holds a cube of lmax+1 slices.
InitPack ==
    \E lm \in 0..Lmax : \E M \in [1..(lm + 1) -> Slices] :
        pk = [lmax |-> lm, M |-> M, stage |-> "cube",
              Msuper |-> NoMat, Mback |-> <<>>]

QuietPack ==
    pk = [lmax |-> 0, M |-> <<>>, stage |-> "off", Msuper |-> NoMat, Mback |-> <<>>]

\* arma::mat Fsuper(SuperCube(conf.Fl))
SuperCubeCall ==
    /\ pk.stage = "cube"
    /\ pk' = [pk EXCEPT !.stage = "packed", !.Msuper = SuperCube(pk.M, pk.lmax)]
    /\ UNCHANGED <<scfvars, chanvars, ordvars, parvars, hipvars>>

\* MiniMat of the supermatrix
MiniMatCall ==
    /\ pk.stage = "packed"
    /\ pk' = [pk EXCEPT !.stage = "unpacked", !.Mback = MiniMat(pk.Msuper, pk.lmax)]
    /\ UNCHANGED <<scfvars, chanvars, ordvars, parvars, hipvars>>

NextPack == SuperCubeCall \/ MiniMatCall

----------------------------------------------------------------------------
(* GeneralHIPBasis: the enabled functions and the scaling of the derivative *)
(* functions.  Function (nder+1)*ifun+ider is the ider-th derivative        *)
(* function of node ifun; enabled and the columns of f are 0-based in the   *)
(* source and held at position index+1.                                     *)

RECURSIVE Pow(_, _)
Pow(b, e) == IF e = 0 THEN 1 ELSE b * Pow(b, e - 1)

\* enabled.subvec(a, b), 0-based and inclusive
Subvec(v, a, b) == [i \in 1..(b - a + 1) |-> v[a + i]]

\* GeneralHIPBasis::GeneralHIPBasis: nder, nnodes and enabled
GeneralHIPBasis(n_elem, nder_) ==
    LET nfuncs == (nder_ + 1) * n_elem
    IN  [nder |-> nder_, nnodes |-> n_elem,
         enabled |-> [i \in 1..nfuncs |-> i - 1], hist |-> <<>>]

\* The inner loop of scale_derivatives from ider on, for node ifun.
RECURSIVE ScaleDerLoop(_, _, _, _, _)
ScaleDerLoop(b, f, element_length, ifun, ider) ==
    IF ~(ider < b.nder) THEN f
    ELSE ScaleDerLoop(b,
             [f EXCEPT ![(b.nder + 1) * ifun + ider + 1] = @ * Pow(element_length, ider)],
             element_length, ifun, ider + 1)

\* The outer loop of scale_derivatives from ifun on.
RECURSIVE ScaleNodeLoop(_, _, _, _)
ScaleNodeLoop(b, f, element_length, ifun) ==
    IF ~(ifun < b.nnodes) THEN f
    ELSE ScaleNodeLoop(b, ScaleDerLoop(b, f, element_length, ifun, 1),
                       element_length, ifun + 1)

\* GeneralHIPBasis::scale_derivatives
scale_derivatives(b, f, element_length) == ScaleNodeLoop(b, f, element_length, 0)

\* GeneralHIPBasis::eval_prim_f, with raw = lip.eval_f(x, dummy_length)*T
eval_prim_f(b, raw, element_length) == scale_derivatives(b, raw, element_length)

\* GeneralHIPBasis::drop_first
drop_first(b, func, deriv) ==
    LET nfuncs == b.nder + 1
        same_funcs == Subvec(b.enabled, nfuncs, Len(b.enabled) - 1)
        first_funcs == Subvec(b.enabled, 0, nfuncs - 1)
    IN  (IF ~func THEN <<first_funcs[1]>> ELSE <<>>)
        \o (IF ~deriv THEN [ider \in 1..b.nder |-> first_funcs[1 + ider]] ELSE <<>>)
        \o same_funcs

\* A drop_last that drops the derivative functions on func and the value
\* function on deriv.
drop_last_Swapped(b, func, deriv) ==
    LET nfuncs == b.nder + 1
        same_funcs == Subvec(b.enabled, 0, Len(b.enabled) - nfuncs - 1)
        last_funcs == Subvec(b.enabled, Len(b.enabled) - nfuncs, Len(b.enabled) - 1)
    IN  same_funcs
        \o (IF ~deriv THEN <<last_funcs[1]>> ELSE <<>>)
        \o (IF ~func THEN [ider \in 1..b.nder |-> last_funcs[1 + ider]] ELSE <<>>)

\* GeneralHIPBasis::drop_last
drop_last(b, func, deriv) ==
    LET nfuncs == b.nder + 1
        same_funcs == Subvec(b.enabled, 0, Len(b.enabled) - nfuncs - 1)
        last_funcs == Subvec(b.enabled, Len(b.enabled) - nfuncs, Len(b.enabled) - 1)
    IN  same_funcs
        \o (IF ~func THEN <<last_funcs[1]>> ELSE <<>>)
        \o (IF ~deriv THEN [ider \in 1..b.nder |-> last_funcs[1 + ider]] ELSE <<>>)

\* One row of lip.eval_f(x, dummy_length)*T: a value per primitive function.
RawRows(b) ==
    { [k \in 1..((b.nder + 1) * b.nnodes) |-> v + k - 1] : v \in 1..2 }

NoEval == [name |-> "none"]

\* A basis as its constructor leaves it, on two or more nodes.
InitHIP ==
    /\ \E n_elem \in 2..MaxNodes, nder_ \in 0..MaxNder :
          hip = GeneralHIPBasis(n_elem, nder_)
    /\ fv = NoEval

QuietHIP ==
    /\ hip = [nder |-> 0, nnodes |-> 0, enabled |-> <<>>, hist |-> <<>>]
    /\ fv = NoEval

EvalPrimFCall ==
    /\ \E raw \in RawRows(hip), element_length \in 1..MaxLength :
          fv' = [name |-> "eval_prim_f", raw |-> raw, len |-> element_length,
                 f |-> eval_prim_f(hip, raw, element_length)]
    /\ UNCHANGED hip
    /\ UNCHANGED <<scfvars, chanvars, ordvars, parvars, packvars>>

\* drop_first on a basis that holds more than the first node's functions
\* (enabled.subvec(nfuncs, n_elem-1) is out of bounds otherwise).
DropFirstCall ==
    /\ Len(hip.hist) < MaxDrops
    /\ Len(hip.enabled) > hip.nder + 1
    /\ \E func \in BOOLEAN, deriv \in BOOLEAN :
          hip' = [hip EXCEPT
                    !.enabled = drop_first(hip, func, deriv),
                    !.hist = Append(@, [name |-> "drop_first", func |-> func,
                                        deriv |-> deriv])]
    /\ UNCHANGED fv
    /\ UNCHANGED <<scfvars, chanvars, ordvars, parvars, packvars>>

\* drop_last on a basis that holds more than the last node's functions.
DropLastCall ==
    /\ Len(hip.hist) < MaxDrops
    /\ Len(hip.enabled) > hip.nder + 1
    /\ \E func \in BOOLEAN, deriv \in BOOLEAN :
          hip' = [hip EXCEPT
                    !.enabled = drop_last(hip, func, deriv),
                    !.hist = Append(@, [name |-> "drop_last", func |-> func,
                                        deriv |-> deriv])]
    /\ UNCHANGED fv
    /\ UNCHANGED <<scfvars, chanvars, ordvars, parvars, packvars>>

NextHIP == EvalPrimFCall \/ DropFirstCall \/ DropLastCall

----------------------------------------------------------------------------
(* The specifications *)

Init ==
    InitSCF /\ QuietChannel /\ QuietOrder /\ QuietParallel
    /\ QuietPack /\ QuietHIP

Next == NextSCF

\* The solver and its Solve calls.
Spec == Init /\ [][Next]_vars

\* The steps of a running call are taken: a call that has started is not
\* abandoned in the middle of the loop or before its return.
SpecLive == Init /\ [][Next]_vars /\ WF_vars(Iterate) /\ WF_vars(SolveReturn)

\* One OrbitalChannel and the operations that assign and move occupations.
ChannelInit ==
    QuietSCF /\ InitChannel /\ QuietOrder /\ QuietParallel
    /\ QuietPack /\ QuietHIP

SpecChannel == ChannelInit /\ [][NextChannel]_vars

\* One OrbitalChannel with occupations and its orbital refreshes.
RefreshInit ==
    QuietSCF /\ InitRefresh /\ QuietOrder /\ QuietParallel
    /\ QuietPack /\ QuietHIP

SpecRefresh == RefreshInit /\ [][NextRefresh]_vars

\* One OrbitalChannel, its occupations and what is read off them.
SpecOccupied == ChannelInit /\ [][NextOccupied]_vars

\* Comparisons of configurations.
OrderInit ==
    QuietSCF /\ QuietChannel /\ InitOrder /\ QuietParallel
    /\ QuietPack /\ QuietHIP

SpecOrder == OrderInit /\ [][NextOrder]_vars

\* Two threads, each in a Solve call on its own configuration, one solver.
ParallelInit ==
    QuietSCF /\ QuietChannel /\ QuietOrder /\ InitParallel
    /\ QuietPack /\ QuietHIP

SpecParallel == ParallelInit /\ [][NextParallel]_vars

\* A cube packed into its supermatrix and unpacked again.
PackInit ==
    /\ QuietSCF /\ QuietChannel /\ QuietOrder /\ QuietParallel
    /\ InitPack /\ QuietHIP

SpecPack == PackInit /\ [][NextPack]_vars

\* One GeneralHIPBasis, its evaluations and the drops of boundary functions.
HIPInit ==
    /\ QuietSCF /\ QuietChannel /\ QuietOrder /\ QuietParallel
    /\ QuietPack /\ InitHIP

SpecHIP == HIPInit /\ [][NextHIP]_vars

----------------------------------------------------------------------------
(* Properties of Solve and FockBuild *)

InCall == pc \in {"loop", "exit"}

AllFalse(log) == \A i \in 1..Len(log) : ~log[i]

\* C1: re-invoking Solve on a configuration that the previous Solve left
\* converged ends after exactly one FockBuild, with |dE| < convthr and
\* converged = true.  Stated for the most favourable re-invocation: the first
\* FockBuild reproduces the converged energy and the accelerator error is
\* below convthr.
C1_ResolveEndsInOneIteration ==
    (/\ pre.solved /\ pre.converged
     /\ pc \in {"loop", "exit", "returned"}
     /\ nfock = 1 /\ E = pre.Econf /\ diiserr < ConvThr)
    => (/\ pc \in {"exit", "returned"}
        /\ Abs(dE) < ConvThr
        /\ conf.converged)

\* C2: a Solve that returns without the convergence test ever having
\* succeeded leaves conf.converged false, whatever maxit and whatever the flag
\* was before, and conf.Econf is the energy of the last FockBuild.
C2_UnconvergedReturnClearsFlag ==
    (pc = "returned" /\ AllFalse(testlog))
    => (/\ conf.converged = FALSE
        /\ (nfock > 0 => conf.Econf = E))

\* The three defects the claim names, for the variant called.
ChannelDefect(oc, wantRestricted) ==
    \/ oc.Cn_elem = 0
    \/ Len(oc.occs) # Lmax + 1
    \/ oc.restr # wantRestricted

ConfDefect(c) ==
    IF c.kind = "r" THEN ChannelDefect(c.orbs, TRUE)
    ELSE ChannelDefect(c.orbsa, FALSE) \/ ChannelDefect(c.orbsb, FALSE)

\* C3: Solve throws, before any iteration, exactly when some channel has no
\* orbitals, an occupation vector whose length is not lmax+1, or a restricted
\* flag that does not fit the variant called.
C3_InvalidStateIffDefect ==
    /\ (pc = "threw" => ConfDefect(conf) /\ nfock = 0 /\ testlog = <<>>)
    /\ (pc \in {"loop", "exit", "returned"} => ~ConfDefect(conf))

C3_Witness ==
    /\ pc = "threw"
    /\ conf.kind = "u"
    /\ ~ChannelDefect(conf.orbsa, FALSE)
    /\ conf.orbsb.Cn_elem # 0 /\ ~conf.orbsb.restr
    /\ Len(conf.orbsb.occs) # Lmax + 1

\* The XC evaluator's energy as it enters Exc.
GridEnergy(c, s, in) == IF c.kind = "r" /\ ~UsesGrid(s) THEN 0 ELSE in.exc

\* C6: after every FockBuild, Econf = Ekin + Epot + Ecoul + Exc, the value
\* returned is Econf, and the exact-exchange energy is in Exc once.
C6_EnergySum ==
    nfock > 0 =>
        /\ conf.Econf = conf.Ekin + conf.Epot + conf.Ecoul + conf.Exc
        /\ E = conf.Econf
        /\ conf.Econf = fin.ekin + fin.epot + fin.ecoul
                        + GridEnergy(conf, solver, fin)
                        + (IF UsesExact(solver) THEN fin.exx ELSE 0)

C6_Witness ==
    /\ nfock > 0
    /\ conf.kind = "r"
    /\ UsesExact(solver) /\ UsesGrid(solver)
    /\ fin.exx # 0 /\ fin.exc # 0
    /\ conf.Exc = fin.exc + fin.exx

\* C8: while a Solve call runs, the accelerator holds only entries recorded by
\* this call, none before the call's first update.
C8_FreshAccelerator ==
    InCall =>
        /\ \A i \in 1..Len(diis) : diis[i].call = ncall
        /\ Len(diis) <= nfock

C8_Witness ==
    /\ ncall = 2 /\ pre.solved
    /\ pc = "loop" /\ nfock = 1
    /\ diis = <<[call |-> 2, it |-> 1]>>

\* The iteration count of a call and where it stops.
C10_Bound ==
    /\ Len(testlog) = nfock
    /\ nfock <= solver.maxit
    /\ \A i \in 1..(Len(testlog) - 1) : ~testlog[i]
    /\ (pc = "loop" => AllFalse(testlog) /\ nfock < solver.maxit)
    /\ (pc \in {"exit", "returned"} =>
            \/ nfock > 0 /\ testlog[nfock]
            \/ nfock = solver.maxit /\ AllFalse(testlog))

\* C10: Solve terminates; it performs at most maxit iterations, stops at the
\* first one whose convergence test succeeds and otherwise after exactly maxit.
C10_Terminates == []C10_Bound /\ (InCall ~> (pc = "returned"))

C10_Witness ==
    /\ pc = "returned"
    /\ solver.maxit > 1
    /\ nfock = 1
    /\ testlog = <<TRUE>>

\* C13: in every iteration conf.converged becomes true exactly when the
\* accelerator error of the iteration is below convthr and the energy differs
\* by less than convthr from Eold, the energy the previous iteration of the
\* call left in the configuration (Solve's initial 0 in the first iteration);
\* the value the flag had before plays no part.
C13_ConvergenceTest ==
    [][ (nfock' = nfock + 1) =>
            LET Eold == IF nfock > 0 THEN conf.Econf ELSE 0
            IN  conf'.converged <=>
                    (diiserr' < ConvThr /\ Abs(conf'.Econf - Eold) < ConvThr) ]_vars

C13_Witness ==
    /\ nfock = 2
    /\ testlog = <<FALSE, FALSE>>
    /\ diiserr < ConvThr /\ Abs(dE) >= ConvThr
    /\ ~conf.converged

\* C14: the refresh of an iteration is the level-shifted one exactly when the
\* accelerator error of that iteration is above diisthr, the plain one
\* otherwise (error = diisthr included), for every channel of the
\* configuration alike.
C14_RefreshBranch ==
    (nfock > 0 /\ pc \in {"loop", "exit", "returned"}) =>
        /\ Len(refresh) = (IF conf.kind = "r" THEN 1 ELSE 2)
        /\ \A i \in 1..Len(refresh) :
              refresh[i] = (IF diiserr > DiisThr THEN "UpdateOrbitalsShifted"
                                                 ELSE "UpdateOrbitals")

C14_Witness ==
    /\ nfock > 0 /\ pc = "loop"
    /\ conf.kind = "u"
    /\ diiserr = DiisThr
    /\ refresh = <<"UpdateOrbitals", "UpdateOrbitals">>

\* C15: a Solve call that passed its checks ends in exactly one of CONVERGED
\* (conf.converged true, nothing reported) and MAX_ITER_EXCEEDED
\* (conf.converged false, non-convergence reported).
C15_ExactlyOneOutcome ==
    pc = "returned" =>
        \/ conf.converged /\ ~report
        \/ ~conf.converged /\ report

\* C22: both FockBuild variants treat the grid term alike: the evaluator's
\* energy is in Exc exactly when the XC potential is in the Fock tensor,
\* that is when x_func > 0 or c_func > 0; otherwise Exc holds the exact or
\* range-separated exchange energy alone (zero without an exchange fraction).
C22_GridTermConsistent ==
    nfock > 0 =>
        /\ ("XC" \in fterms) <=> UsesGrid(solver)
        /\ conf.Exc = (IF "XC" \in fterms THEN fin.exc ELSE 0)
                       + (IF UsesExact(solver) THEN fin.exx ELSE 0)

\* C23: every iteration runs FockBuild, the accelerator update, the
\* convergence test, the unpacking and the orbital refresh in this order, the
\* converging iteration included: the refreshes equal the FockBuild calls and
\* the densities and energies stem from the orbitals before the last refresh.
C23_StepOrder ==
    (nfock > 0 /\ pc \in {"loop", "exit", "returned"}) =>
        /\ prog.steps = <<"FockBuild", "diis.update", "converged", "diis.solve_F",
                          "MiniMat", "UpdateOrbitals">>
        /\ Len(refresh) > 0
        /\ prog.nrefresh = nfock
        /\ prog.built = prog.nrefresh - 1

C23_Witness ==
    /\ pc = "returned"
    /\ nfock = 2 /\ conf.converged
    /\ prog.nrefresh = 2 /\ prog.built = 1

\* C25: a Solve that fails a check has changed nothing: the configuration
\* and the solver are as the call found them, and no FockBuild, accelerator
\* update or refresh has run.
C25_ThrowChangesNothing ==
    pc = "threw" =>
        /\ conf = before[1]
        /\ solver = before[2]
        /\ nfock = 0 /\ testlog = <<>> /\ prog = NoProgress /\ fterms = {}

C25_Witness ==
    /\ pc = "threw"
    /\ solver.verbose
    /\ conf.converged /\ conf.Econf # 0
    /\ conf.kind = "r" /\ ~conf.orbs.restr

\* C26: the value Solve returns is conf.Econf as the configuration holds it
\* on return, for every maxit.
C26_ReturnsStoredEnergy ==
    pc = "returned" => ret = conf.Econf

----------------------------------------------------------------------------
(* Properties of OrbitalChannel *)

RECURSIVE TotalCapacityFrom(_, _)
TotalCapacityFrom(c, l) ==
    IF l > c.lmax THEN 0
    ELSE Len(c.E[l + 1]) * ShellCapacity(c, l) + TotalCapacityFrom(c, l + 1)

TotalCapacity(c) == TotalCapacityFrom(c, 0)

\* C4: AufbauOccupations(numel), numel >= 0, leaves occupations that sum to
\* min(numel, total capacity), none above Nrad * ShellCapacity(l).
C4_AufbauTotal ==
    op.name = "AufbauOccupations" =>
        /\ Len(ch.occs) = ch.lmax + 1
        /\ SumSeq(ch.occs) = Min(op.numel, TotalCapacity(ch))
        /\ \A l \in 0..ch.lmax :
              ch.occs[l + 1] <= Len(ch.E[l + 1]) * ShellCapacity(ch, l)

C4_Witness ==
    /\ op.name = "AufbauOccupations"
    /\ ch.lmax = 1 /\ ~ch.restr
    /\ op.numel < TotalCapacity(ch)
    /\ ch.occs = <<2, 3>>

\* C5: the list MoveElectrons returns holds a channel with the caller's
\* occupations, and every channel in it has the caller's electron count.
C5_MovesKeepElectrons ==
    op.name = "MoveElectrons" =>
        /\ \E i \in 1..Len(moves) : moves[i].occs = ch.occs
        /\ \A i \in 1..Len(moves) : SumSeq(moves[i].occs) = SumSeq(ch.occs)

C5_Witness ==
    /\ op.name = "MoveElectrons"
    /\ ch.lmax = 1
    /\ ch.occs = <<2, 1>>
    /\ Len(moves) > 2
    /\ \E i \in 1..Len(moves) : moves[i].occs = <<0, 3>>

\* C28: on non-negative occupations every channel MoveElectrons returns has
\* non-negative occupations of length lmax+1 and the orbitals, energies, lmax
\* and restricted flag of the source, and the call leaves the source as it was.
C28_MovesAreChannels ==
    /\ [](op.name = "MoveElectrons" =>
            /\ Len(moves) >= 1
            /\ \A i \in 1..Len(moves) :
                  /\ Len(moves[i].occs) = ch.lmax + 1
                  /\ \A k \in 1..(ch.lmax + 1) : moves[i].occs[k] >= 0
                  /\ moves[i].E = ch.E
                  /\ moves[i].lmax = ch.lmax
                  /\ moves[i].restr = ch.restr)
    /\ [][op'.name = "MoveElectrons" => ch' = ch]_vars

C28_Witness ==
    /\ op.name = "MoveElectrons"
    /\ ch.lmax = 1 /\ ch.restr
    /\ ch.occs = <<1, 2>>
    /\ \E i \in 1..Len(moves) : moves[i].occs = <<0, 3>>
    /\ \E i \in 1..Len(moves) : moves[i].occs = <<3, 0>>

\* The triples (from, to, nmove) the claim names.
MoveTriples(c) ==
    { t \in (0..c.lmax) \X (0..c.lmax) \X (1..(4 * c.lmax + 2)) :
        /\ t[3] <= Min(ShellCapacity(c, t[1]), ShellCapacity(c, t[2]))
        /\ c.occs[t[1] + 1] >= t[3] }

TripleOccs(c, t) ==
    [k \in 1..(c.lmax + 1) |->
        c.occs[k] - (IF k = t[1] + 1 THEN t[3] ELSE 0)
                  + (IF k = t[2] + 1 THEN t[3] ELSE 0)]

\* C16: MoveElectrons returns one channel per triple (from, to, nmove) with
\* 1 <= nmove <= min(ShellCapacity(from), ShellCapacity(to)) and
\* occs[from] >= nmove, with nmove electrons moved from from to to; and the
\* single all-zero sentinel exactly when there is no such triple.
C16_ExactMoves ==
    op.name = "MoveElectrons" =>
        LET T == MoveTriples(ch)
            idx == 1..Len(moves)
        IN  IF T = {}
            THEN moves = <<[ch EXCEPT !.occs = Zeros(ch.lmax + 1)]>>
            ELSE /\ Len(moves) = Cardinality(T)
                 /\ \A i \in idx :
                        /\ moves[i] = [ch EXCEPT !.occs = moves[i].occs]
                        /\ moves[i].occs # Zeros(ch.lmax + 1)
                        /\ \E t \in T : moves[i].occs = TripleOccs(ch, t)
                 /\ \A t \in T :
                        Cardinality({ i \in idx : moves[i].occs = TripleOccs(ch, t) })
                        = Cardinality({ u \in T : TripleOccs(ch, u) = TripleOccs(ch, t) })

C16_Witness ==
    /\ op.name = "MoveElectrons"
    /\ ~ch.restr /\ ch.lmax = 1
    /\ ch.occs = <<1, 1>>
    /\ Len(moves) = 4
    /\ Cardinality({ i \in 1..Len(moves) : moves[i].occs = ch.occs }) = 2

----------------------------------------------------------------------------
(* Properties of the occupied shells *)

\* C11: the file Save writes is consistent with itself: the point count of
\* line 1 is the number of radial coordinates of the basis and of coordinate
\* lines; the orbital count of line 1 is the number of entries of lines 2, 3
\* and 4 and of amplitudes on every coordinate line; entry k of lines 2-4 and
\* amplitude column k belong to the same orbital.
C11_DumpConsistent ==
    out.name = "Save" =>
        LET d == out.val
            norb == d.header[2]
        IN  /\ d.header[1] = NPoints
            /\ Len(d.rows) = d.header[1]
            /\ Len(d.lvals) = norb
            /\ Len(d.occnums) = norb
            /\ Len(d.energies) = norb
            /\ \A i \in 1..Len(d.rows) :
                  /\ Len(d.rows[i].amps) = norb
                  /\ \A k \in 1..Len(d.rows[i].amps) :
                        /\ d.rows[i].amps[k].l = d.lvals[k]
                        /\ ch.E[d.lvals[k] + 1][d.rows[i].amps[k].io + 1]
                              = d.energies[k]

\* C12: ShellCapacity(l) is 4l+2 on a restricted channel and 2l+1 on an
\* unrestricted one, for every l in 0..6.
C12_ShellCapacity ==
    out.name = "ShellCapacity" =>
        out.val = (IF ch.restr THEN 4 * out.l + 2 ELSE 2 * out.l + 1)

C12_Witness ==
    /\ out.name = "ShellCapacity"
    /\ ch.restr
    /\ out.l = 6
    /\ out.val = 26

DistinctEnergies(c) ==
    \A j \in DOMAIN FlatShells(c) : \A k \in DOMAIN FlatShells(c) :
        j # k => FlatShells(c)[j].E # FlatShells(c)[k].E

\* The electrons shell k of the flattened vector holds when numel electrons
\* go into the shells from the lowest energy upwards.
LowestFill(c, k, numel) ==
    LET sh == FlatShells(c)
        below == SumSeq([j \in DOMAIN sh |->
                    IF sh[j].E < sh[k].E THEN ShellCapacity(c, sh[j].l) ELSE 0])
        rest == numel - below
    IN  IF rest <= 0 THEN 0 ELSE Min(ShellCapacity(c, sh[k].l), rest)

\* C19: with distinct energies and numel within the total capacity,
\* GetOccupied after AufbauOccupations(numel) returns exactly the
\* lowest-energy shells of the global ordering, full except possibly the
\* highest one, and neither call has another possible result.
C19_AufbauThenOccupied ==
    (/\ op.name = "AufbauOccupations" /\ out.name = "GetOccupied"
     /\ DistinctEnergies(ch) /\ op.numel <= TotalCapacity(ch))
    => LET sh == FlatShells(ch)
           nr == Nmo(ch)
           held == { k \in DOMAIN sh : LowestFill(ch, k, op.numel) > 0 }
           occlist == out.val
       IN  /\ Len(occlist) = Cardinality(held)
           /\ \A k \in held :
                 \E i \in 1..Len(occlist) :
                     occlist[i] = [n |-> sh[k].l + ((k - 1) % nr) + 1,
                                   l |-> sh[k].l, E |-> sh[k].E,
                                   nocc |-> LowestFill(ch, k, op.numel)]
           /\ \A i \in 1..(Len(occlist) - 1) :
                 /\ occlist[i].E < occlist[i + 1].E
                 /\ occlist[i].nocc = ShellCapacity(ch, occlist[i].l)
           /\ AufbauOccupations(ch, op.numel) = {ch.occs}
           /\ GetOccupied(ch) = {occlist}

C19_Witness ==
    /\ op.name = "AufbauOccupations" /\ out.name = "GetOccupied"
    /\ DistinctEnergies(ch) /\ op.numel <= TotalCapacity(ch)
    /\ ~ch.restr /\ ch.lmax = 1 /\ op.numel = 5
    /\ Len(out.val) = 3
    /\ out.val[2].l = 1 /\ out.val[3].l = 0 /\ out.val[3].n = 2
    /\ ch.occs = <<2, 3>>

----------------------------------------------------------------------------
(* Properties of the orbital refresh *)

C24_RefreshKeepsOccupations ==
    [][/\ ch'.occs = ch.occs
       /\ ch'.lmax = ch.lmax
       /\ ch'.restr = ch.restr]_vars

C24_Witness ==
    /\ op.name = "UpdateOrbitalsDamped"
    /\ out.name = "UpdateDensity"
    /\ ch.occs = <<2, 1>> /\ ch.restr
    /\ ch.E[1] # ch.E[2]

----------------------------------------------------------------------------
(* Properties of the ordering *)

\* C7: a < b iff a is converged and b is not, or both have the same flag and
\* a.Econf < b.Econf.
C7_OrderDefinition ==
    cmp.done =>
        (cmp.less <=>
            \/ cmp.lh.converged /\ ~cmp.rh.converged
            \/ cmp.lh.converged = cmp.rh.converged /\ cmp.lh.Econf < cmp.rh.Econf)

C7_Witness ==
    /\ cmp.done /\ cmp.kind = "r"
    /\ cmp.lh.converged /\ ~cmp.rh.converged
    /\ cmp.lh.Econf > cmp.rh.Econf
    /\ cmp.less

\* operator< of the kind of configuration compared.
ConfLess(kind, a, b) == IF kind = "r" THEN LessR(a, b) ELSE LessU(a, b)

\* Neither of two configurations is less than the other.
Incomparable(kind, a, b) == ~ConfLess(kind, a, b) /\ ~ConfLess(kind, b, a)

\* The candidates a sort by operator< can put first: those that no candidate
\* is less than.
SortsFirst(kind, cand) ==
    {m \in cand : \A x \in cand : ~ConfLess(kind, x, m)}

\* C27: operator< is a strict weak ordering: irreflexive, asymmetric,
\* transitive, with transitive incomparability; a sort by it puts a converged
\* configuration of least Econf first whenever a candidate is converged.
C27_StrictWeakOrdering ==
    cmp.done =>
        LET k == cmp.kind
            a == cmp.lh
            b == cmp.rh
        IN  /\ cmp.less = ConfLess(k, a, b)
            /\ ~ConfLess(k, a, a)
            /\ cmp.less => ~ConfLess(k, b, a)
            /\ \A c \in RankedConfs :
                  /\ (cmp.less /\ ConfLess(k, b, c)) => ConfLess(k, a, c)
                  /\ (Incomparable(k, a, b) /\ Incomparable(k, b, c))
                        => Incomparable(k, a, c)
                  /\ LET cand == {a, b, c}
                     IN  /\ SortsFirst(k, cand) # {}
                         /\ (\E x \in cand : x.converged) =>
                               \A m \in SortsFirst(k, cand) :
                                  /\ m.converged
                                  /\ \A x \in cand :
                                        x.converged => m.Econf <= x.Econf

C27_Witness ==
    /\ cmp.done /\ cmp.kind = "u"
    /\ ~cmp.less
    /\ Incomparable("u", cmp.lh, cmp.rh)
    /\ cmp.lh.converged /\ cmp.lh.Econf < 0
    /\ SortsFirst("u", {cmp.lh, cmp.rh, [converged |-> FALSE, Econf |-> 0 - 2]})
          = {cmp.lh}

----------------------------------------------------------------------------
(* Properties of concurrent calls *)

\* C9: two Solve calls running in parallel on one solver share no mutable
\* state: no field of the solver that one call writes is read or written by
\* the other.
C9_NoSharedMutableState ==
    \A a \in acc : \A b \in acc :
        (a.t # b.t /\ a.loc = b.loc) => (~a.w /\ ~b.w)

----------------------------------------------------------------------------
(* Properties of the packing *)

\* C21: SuperCube(M) is square block-diagonal of size (lmax+1)*n with M's
\* l-th slice as its l-th diagonal block and zero elsewhere, and
\* MiniMat(SuperCube(M)) is M again.
C21_PackRoundTrip ==
    pk.stage \in {"packed", "unpacked"} =>
        LET n == NRows(pk.M[1])
            size == (pk.lmax + 1) * n
        IN  /\ NRows(pk.Msuper) = size /\ NCols(pk.Msuper) = size
            /\ \A i \in 0..(size - 1) : \A j \in 0..(size - 1) :
                  pk.Msuper[i + 1][j + 1] =
                      (IF i \div n = j \div n
                       THEN pk.M[(i \div n) + 1][(i % n) + 1][(j % n) + 1]
                       ELSE 0)
            /\ pk.stage = "unpacked" => pk.Mback = pk.M

C21_Witness ==
    /\ pk.stage = "unpacked"
    /\ pk.lmax = 1
    /\ pk.M[1] # pk.M[2]
    /\ pk.Mback[2] = pk.M[2]
    /\ pk.Msuper[1][NCols(pk.Msuper)] = 0

----------------------------------------------------------------------------
(* Properties of GeneralHIPBasis *)

\* C29: scale_derivatives multiplies, for every node ifun and every
\* derivative order ider in 1..nder, column (nder+1)*ifun+ider by
\* element_length^ider, and leaves the value columns as they are.
C29_DerivativesScaled ==
    fv.name = "eval_prim_f" =>
        \A ifun \in 0..(hip.nnodes - 1) : \A ider \in 0..hip.nder :
            LET col == (hip.nder + 1) * ifun + ider + 1
            IN  fv.f[col] = fv.raw[col] * Pow(fv.len, ider)

\* The functions of a freshly constructed basis.
FreshEnabled(b) == [i \in 1..((b.nder + 1) * b.nnodes) |-> i - 1]

\* The functions one drop on a fresh basis is to remove.
Dropped(b, d) ==
    LET node == IF d.name = "drop_first" THEN 0 ELSE b.nnodes - 1
    IN  (IF d.func THEN {(b.nder + 1) * node} ELSE {})
        \cup (IF d.deriv THEN {(b.nder + 1) * node + ider : ider \in 1..b.nder}
                         ELSE {})

\* C30: on a fresh basis drop_first(func, deriv) removes the first node's
\* value function iff func and its nder derivative functions iff deriv,
\* drop_last does so for the last node, the other functions stay in order, and
\* the enabled count drops by (func ? 1 : 0) + (deriv ? nder : 0).
C30_DropsBoundaryFunctions ==
    Len(hip.hist) = 1 =>
        LET d == hip.hist[1]
            Kept(x) == x \notin Dropped(hip, d)
        IN  /\ hip.enabled = SelectSeq(FreshEnabled(hip), Kept)
            /\ Len(hip.enabled) = Len(FreshEnabled(hip))
                 - ((IF d.func THEN 1 ELSE 0) + (IF d.deriv THEN hip.nder ELSE 0))

C30_Witness ==
    /\ Len(hip.hist) = 1
    /\ hip.hist[1] = [name |-> "drop_last", func |-> FALSE, deriv |-> TRUE]
    /\ hip.nder = 2 /\ hip.nnodes = 2
    /\ hip.enabled = <<0, 1, 2, 3>>

====
